---------------------------- MODULE Spec2Model ----------------------------
(***************************************************************************)
(* TIDAL.py: the orchestrator of the TIDAL pipeline.                       *)
(*                                                                         *)
(* Strings are sequences of tokens: a token is a chunk of ordinary         *)
(* characters, or one of the separators "/", ".", "\t", "\n".  String      *)
(* concatenation is \o, and the string functions the program uses          *)
(* (basename, split, join, replace, slicing) are defined on the tokens.    *)
(***************************************************************************)
EXTENDS Integers, Sequences, FiniteSets, TLC

(***************************************************************************)
(* Bounds of the model.                                                    *)
(***************************************************************************)
\* at most this many of the nine required input files are absent
MaxMissing == 1
\* at most this many cp invocations of one run fail
MaxCopyFailures == 1
\* the read files tried hold at most this many records
MaxRecords == 3
\* the reads tried are at most this long
MaxReadLen == 3
\* the values tried for the parameter reads, besides its default
MaxReadsArg == 6
\* the insertion tables tried hold at most this many records
MaxRows == 2
\* the reference genomes tried hold at most this many sequences
MaxSeqs == 2

(***************************************************************************)
(* String functions.                                                       *)
(***************************************************************************)
Last(s) == s[Len(s)]

\* the positions of token c in s
Positions(s, c) == {i \in 1..Len(s) : s[i] = c}

Max(S) == CHOOSE x \in S : \A y \in S : y <= x

\* c in s
Contains(s, c) == Positions(s, c) # {}

\* os.path.basename(path): what follows the last "/"
basename(path) ==
    IF Contains(path, "/")
    THEN SubSeq(path, Max(Positions(path, "/")) + 1, Len(path))
    ELSE path

\* os.path.dirname(path), for an absolute path
dirname(path) ==
    LET k == Max(Positions(path, "/"))
    IN  IF k = 1 THEN <<"/">> ELSE SubSeq(path, 1, k - 1)

\* s[-3:] == ".gz"
EndsWithGz(s) ==
    /\ Len(s) >= 2
    /\ s[Len(s) - 1] = "."
    /\ s[Len(s)] = "gz"

\* s[:-3], used where s ends with ".gz"
DropGz(s) == SubSeq(s, 1, Len(s) - 2)

\* ".".join(infile.split(".")[:-1])
remove_file_ext(infile) ==
    IF Contains(infile, ".")
    THEN SubSeq(infile, 1, Max(Positions(infile, ".")) - 1)
    ELSE << >>

get_base_name(path) ==
    LET no_path == basename(path)
        no_gz == IF EndsWithGz(no_path) THEN DropGz(no_path) ELSE no_path
    IN  remove_file_ext(no_gz)

(***************************************************************************)
(* The command line.                                                       *)
(***************************************************************************)
\* the nine required options, in the order parse_args resolves them
Required ==
    <<"fastq", "reference", "consensus", "annotation", "gem", "virus",
      "masked", "repeatmasker", "table">>

RequiredSet == {Required[i] : i \in 1..Len(Required)}

\* the value of an option that was not given
None == <<"<None>">>

\* the paths given on the command line (absolute and normalised, so that
\* os.path.abspath leaves them as they are)
GivenPath(field, gz) ==
    CASE field = "fastq" ->
            <<"/", "in", "/", "reads", ".", "fastq">>
                \o (IF gz THEN <<".", "gz">> ELSE << >>)
      [] field = "reference"    -> <<"/", "in", "/", "dm6", ".", "fa">>
      [] field = "consensus"    -> <<"/", "in", "/", "te", ".", "fa">>
      [] field = "annotation"   -> <<"/", "in", "/", "refGene", ".", "txt">>
      [] field = "gem"          -> <<"/", "in", "/", "dm6", ".", "gem">>
      [] field = "virus"        -> <<"/", "in", "/", "virus", ".", "fa">>
      [] field = "masked"       -> <<"/", "rm", "/", "dm6", ".", "fa">>
      [] field = "repeatmasker" -> <<"/", "in", "/", "rmsk", ".", "txt">>
      [] field = "table"        -> <<"/", "in", "/", "lookup", ".", "txt">>

\* the sample names tried: none given, a plain one, one with a path separator
SampleNames == {None, <<"s1">>, <<"a", "/", "b">>}

\* the working directory of the process at start
StartDir == <<"/", "cwd">>

\* the output directories tried: none given, one that can be created, one
\* whose parent directory does not exist
OutDirs == {None, <<"/", "cwd", "/", "o">>, <<"/", "no", "/", "o">>}

\* the directories that exist at start
StartDirs == {<<"/">>, <<"/", "in">>, <<"/", "rm">>, StartDir}

\* where the program's own files are (os.path.dirname of TIDAL.py)
code_dir == <<"/", "code">>

\* the exit statuses a subprocess may report
ExitStatuses == {0, 1, 2}

(***************************************************************************)
(* Numbers as text.                                                        *)
(***************************************************************************)
Digits == <<"0", "1", "2", "3", "4", "5", "6", "7", "8", "9">>

\* str(n), for n >= 0: the decimal digits of n
RECURSIVE str(_)
str(n) ==
    IF n < 10 THEN <<Digits[n + 1]>>
    ELSE Append(str(n \div 10), Digits[(n % 10) + 1])

(***************************************************************************)
(* Text files: a file is the sequence of its lines, each line with its     *)
(* terminator "\n" (the last line of a file may lack it).                  *)
(***************************************************************************)
\* line.replace("\n", "")
replace_nl(line) == SelectSeq(line, LAMBDA c : c # "\n")

RECURSIVE Sum(_)
Sum(s) == IF s = << >> THEN 0 ELSE s[1] + Sum(Tail(s))

\* the body of the loop of estimate_read_length, from line number x on
RECURSIVE erl_loop(_, _, _, _)
erl_loop(f, reads, x, lengths) ==
    IF x >= Len(f) THEN lengths
    ELSE LET appended ==
                 IF x % 4 = 1
                 THEN Append(lengths, Len(replace_nl(f[x + 1])))
                 ELSE lengths
         IN  IF x >= reads THEN appended
             ELSE erl_loop(f, reads, x + 1, appended)

\* estimate_read_length(fq, reads) on a file that exists: the exception it
\* raises ("" when none) and the value it returns
estimate_read_length(f, reads) ==
    LET lengths == erl_loop(f, reads, 0, << >>)
    IN  IF Len(lengths) = 0
        THEN [raised |-> "ZeroDivisionError", value |-> 0]
        ELSE [raised |-> "", value |-> Sum(lengths) \div Len(lengths)]

\* the default of the parameter reads
DefaultReads == 10000

VARIABLES
    pc,         \* the position of the process in main
    step,       \* the position within a run of like statements (0: none)
    argv,       \* the command line: [path, gz, sample_name, out]
    args,       \* the configuration object
    fs,         \* the files that exist
    dirs,       \* the directories that exist
    cwd,        \* the working directory of the process
    fq_lines,   \* the lines of the read file named on the command line
    read_length,\* the estimate of the read length, 0 before it is made
    table,      \* the lines of the insertion table of the result directory
    bed,        \* the lines written to the interval file
    invoked,    \* the external commands launched so far, in order
    failed,     \* the commands among them that exited non-zero
    verified,   \* the stages whose checkpoint has passed, in order
    stderr,     \* the diagnostics written to the error stream, in order
    exit_code,  \* the exit status, meaningful once pc = "exited"
    call,       \* the function under way and its arguments
    ret         \* what a function called by itself returned or raised

vars == <<pc, step, argv, args, fs, dirs, cwd, fq_lines, read_length, table,
          bed, invoked, failed, verified, stderr, exit_code, call, ret>>

\* the state of the process, as opposed to a call of one of its functions
process_vars ==
    <<pc, step, argv, args, fs, dirs, cwd, fq_lines, read_length, table, bed,
      invoked, failed, verified, stderr, exit_code>>


(***************************************************************************)
(* The file system, as the program sees it.                                *)
(***************************************************************************)
\* os.path.isfile(p)
isfile(p) == p \in fs

\* a path as the operating system resolves it against the working directory
resolve(p) == IF p # << >> /\ p[1] = "/" THEN p ELSE cwd \o <<"/">> \o p

\* exists, were it to take the path of a directory to make for the file
exists_parent(p) == resolve(p) \in fs \/ dirname(resolve(p)) \in dirs

\* os.path.exists(p)
exists(p) == resolve(p) \in fs \/ resolve(p) \in dirs

\* mkdir(indir): os.mkdir raises when the parent directory does not exist
mkdir_raises(indir) == indir \notin dirs /\ dirname(indir) \notin dirs

\* the directories after a mkdir(indir) that does not raise
mkdir(indir) == dirs \cup {indir}

(***************************************************************************)
(* Leaving the process.                                                    *)
(***************************************************************************)
\* sys.exit(code), after msg (if any) went to the error stream
Exit(code, msg) ==
    /\ pc' = "exited"
    /\ step' = 0
    /\ exit_code' = code
    /\ stderr' = IF msg = << >> THEN stderr ELSE Append(stderr, msg)

\* an exception nothing catches: the traceback is printed, the status is 1
Raise(exception) == Exit(1, <<"Traceback: ", exception>>)

\* straight on to the next statement
Goto(next_pc, next_step) ==
    /\ pc' = next_pc
    /\ step' = next_step
    /\ UNCHANGED <<stderr, exit_code>>

(***************************************************************************)
(* parse_args                                                              *)
(***************************************************************************)
\* FirstMissing, were the last of the nine options left unresolved
FirstMissing_but_last ==
    LET bad == {i \in 1..(Len(Required) - 1) : ~isfile(argv[Required[i]])}
    IN  IF bad = {} THEN 0 ELSE CHOOSE i \in bad : \A j \in bad : i <= j

\* the first required option whose path names no file, 0 when each names one
\* (get_abs_path is applied to the nine options in the order of Required)
FirstMissing ==
    LET bad == {i \in 1..Len(Required) : ~isfile(argv[Required[i]])}
    IN  IF bad = {} THEN 0 ELSE CHOOSE i \in bad : \A j \in bad : i <= j

\* the sample name when none is given
default_sample_name == remove_file_ext(basename(argv.fastq))

\* args.out once resolved (os.path.abspath)
resolved_out == IF argv.out = None THEN StartDir ELSE argv.out

parse_args ==
    /\ pc = "parse_args"
    /\ UNCHANGED <<call, ret, argv, fs, cwd, fq_lines, read_length, table, bed, invoked,
                   failed, verified>>
    /\ IF FirstMissing # 0
       THEN /\ Exit(1, <<"Cannot find file:", " ">> \o argv[Required[FirstMissing]]
                        \o <<" ", "exiting....\n">>)
            /\ UNCHANGED <<args, dirs>>
       ELSE IF argv.sample_name # None /\ Contains(argv.sample_name, "/")
       THEN /\ Exit(1, argv.sample_name \o <<" is not a valid sample name...\n">>)
            /\ UNCHANGED <<args, dirs>>
       ELSE IF argv.out # None /\ mkdir_raises(resolved_out)
       THEN /\ pc' = "exited"
            /\ step' = 0
            /\ exit_code' = 1
            /\ stderr' = stderr \o
                   << <<"Traceback: ", "FileNotFoundError">>,
                      <<"cannot create output directory: ", " ">> \o resolved_out
                          \o <<" ", "exiting...">> >>
            /\ UNCHANGED <<args, dirs>>
       ELSE /\ args' = [argv EXCEPT
                          !.sample_name = IF argv.sample_name = None
                                          THEN default_sample_name
                                          ELSE argv.sample_name,
                          !.processors = IF argv.processors = None
                                         THEN <<"1">>
                                         ELSE argv.processors,
                          !.out = resolved_out]
            /\ dirs' = IF argv.out = None THEN dirs ELSE mkdir(resolved_out)
            /\ Goto("setup_input_files", 0)

(***************************************************************************)
(* copy and run_command                                                    *)
(***************************************************************************)
\* the path copy returns
copy_outfile_keeps_name(infile, outdir, outfilename) ==
    outdir \o <<"/">> \o basename(infile)

copy_outfile(infile, outdir, outfilename) ==
    IF outfilename = None
    THEN outdir \o <<"/">> \o basename(infile)
    ELSE outdir \o <<"/">> \o outfilename

\* the cp invocations that failed so far
CopyFailures == Cardinality({c \in failed : c[1] = <<"cp">>})

\* copy(infile, outdir, outfilename) where cp exits with status rc:
\* subprocess.call returns the status and copy drops it
copy(infile, outdir, outfilename, rc) ==
    LET outfile == copy_outfile(infile, outdir, outfilename)
        cmd_list == << <<"cp">>, infile, outfile >>
    IN  /\ rc # 0 => CopyFailures < MaxCopyFailures
        /\ rc = 0 => isfile(infile)
        /\ invoked' = Append(invoked, cmd_list)
        /\ failed' = IF rc # 0 THEN failed \cup {cmd_list} ELSE failed
        /\ fs' = IF rc = 0 THEN fs \cup {outfile} ELSE fs

\* " ".join(cmd_list)
RECURSIVE join(_, _)
join(list, sep) ==
    IF list = << >> THEN << >>
    ELSE IF Len(list) = 1 THEN list[1]
    ELSE list[1] \o sep \o join(Tail(list), sep)

\* run_command_outcome, were the log branch to lack its sys.exit
run_command_outcome_log_returns(cmd_list, log, fatal, rc, can_open) ==
    LET cmd_string == join(cmd_list, <<" ">>)
        msg == cmd_string \o <<"\n">>
    IN  IF log # None /\ ~can_open
        THEN [launched |-> FALSE, raised |-> "FileNotFoundError", returns |-> FALSE,
              value |-> FALSE, code |-> 1, err |-> << >>, logged |-> << >>]
        ELSE IF rc = 0
        THEN [launched |-> TRUE, raised |-> "", returns |-> TRUE, value |-> TRUE,
              code |-> 0, err |-> << >>,
              logged |-> IF log = None THEN << >> ELSE <<msg>>]
        ELSE [launched |-> TRUE, raised |-> "",
              returns |-> (log # None \/ ~fatal), value |-> FALSE,
              code |-> IF log = None /\ fatal THEN 1 ELSE 0, err |-> <<msg>>,
              logged |-> IF log = None THEN << >> ELSE <<msg, msg>>]

\* lines 118-157: run_command(cmd_list, log, fatal) where the subprocess
\* exits with status rc, and where the log file, if one is named, can be
\* opened or not.  What comes of the call: whether the subprocess was
\* launched, the exception that escapes ("" when none), whether the call
\* returns and with which value, the exit status when it does not, what is
\* written to the standard error, and what is appended to the log.
\* check_call captures nothing, so e.output and e.stderr are None and msg
\* is the command line.  On failure writelog appends msg before the
\* buffered command line of line 138 reaches the file.
run_command_outcome(cmd_list, log, fatal, rc, can_open) ==
    LET cmd_string == join(cmd_list, <<" ">>)
        msg == cmd_string \o <<"\n">>
    IN  IF log # None /\ ~can_open
        THEN [launched |-> FALSE, raised |-> "FileNotFoundError", returns |-> FALSE,
              value |-> FALSE, code |-> 1, err |-> << >>, logged |-> << >>]
        ELSE IF rc = 0
        THEN [launched |-> TRUE, raised |-> "", returns |-> TRUE, value |-> TRUE,
              code |-> 0, err |-> << >>,
              logged |-> IF log = None THEN << >> ELSE <<msg>>]
        ELSE [launched |-> TRUE, raised |-> "", returns |-> ~fatal, value |-> FALSE,
              code |-> IF fatal THEN 1 ELSE 0, err |-> <<msg>>,
              logged |-> IF log = None THEN << >> ELSE <<msg, msg>>]

\* run_command, were it to launch the command again when it fails
run_command_retries(cmd_list, fatal, rc, next_pc, next_step) ==
    /\ invoked' = Append(invoked, cmd_list)
    /\ UNCHANGED exit_code
    /\ IF rc = 0
       THEN /\ pc' = next_pc
            /\ step' = next_step
            /\ UNCHANGED <<failed, stderr>>
       ELSE /\ pc' = pc
            /\ step' = step
            /\ failed' = failed \cup {cmd_list}
            /\ stderr' = Append(stderr, join(cmd_list, <<" ">>) \o <<"\n">>)

\* run_command, were it to return False whatever the policy
run_command_returns(cmd_list, fatal, rc, next_pc, next_step) ==
    /\ invoked' = Append(invoked, cmd_list)
    /\ pc' = next_pc
    /\ step' = next_step
    /\ UNCHANGED exit_code
    /\ IF rc = 0
       THEN UNCHANGED <<failed, stderr>>
       ELSE /\ failed' = failed \cup {cmd_list}
            /\ stderr' = Append(stderr, join(cmd_list, <<" ">>) \o <<"\n">>)

\* run_command(cmd_list, log=None, fatal) where the subprocess exits with
\* status rc; on return the process goes on at next_pc, next_step.
\* check_call captures nothing, so e.output and e.stderr are None and the
\* diagnostic is the command line.
run_command(cmd_list, fatal, rc, next_pc, next_step) ==
    LET o == run_command_outcome(cmd_list, None, fatal, rc, TRUE)
    IN  /\ invoked' = Append(invoked, cmd_list)
        /\ failed' = IF rc = 0 THEN failed ELSE failed \cup {cmd_list}
        /\ stderr' = stderr \o o.err
        /\ IF o.returns
           THEN pc' = next_pc /\ step' = next_step /\ UNCHANGED exit_code
           ELSE pc' = "exited" /\ step' = 0 /\ exit_code' = o.code

(***************************************************************************)
(* setup_input_files                                                       *)
(***************************************************************************)
ref_dir == args.out \o <<"/", "reference">>

tidal_out == args.out \o <<"/", "TIDAL_out">>

\* lines 165-167: the reference directory is made and entered
setup_input_files ==
    /\ pc = "setup_input_files"
    /\ UNCHANGED <<call, ret, argv, args, fs, fq_lines, read_length, table, bed, invoked,
                   failed, verified>>
    /\ IF mkdir_raises(ref_dir)
       THEN Raise("FileNotFoundError") /\ UNCHANGED <<dirs, cwd>>
       ELSE /\ dirs' = mkdir(ref_dir)
            /\ cwd' = ref_dir
            /\ Goto("copy", 1)

\* CopyFields, were the copy of the lookup table left out
CopyFields_without_table ==
    <<"reference", "consensus", "annotation", "gem", "virus", "masked",
      "repeatmasker">>

\* the options copied into the reference directory, in the order of lines
\* 168-175
CopyFields ==
    <<"reference", "consensus", "annotation", "gem", "virus", "masked",
      "repeatmasker", "table">>

\* lines 168-175: the copy of option CopyFields[step]
setup_copy ==
    /\ pc = "copy"
    /\ UNCHANGED <<call, ret, argv, dirs, cwd, fq_lines, read_length, table, bed,
                   verified, stderr, exit_code>>
    /\ \E rc \in ExitStatuses :
         LET field == CopyFields[step]
             outfilename ==
                 IF field = "masked"
                 THEN <<"masked", ".">> \o get_base_name(args.masked)
                 ELSE None
         IN  /\ copy(args[field], ref_dir, outfilename, rc)
             /\ args' = [args EXCEPT
                           ![field] = copy_outfile(args[field], ref_dir, outfilename)]
    /\ IF step < Len(CopyFields)
       THEN pc' = pc /\ step' = step + 1
       ELSE pc' = "index" /\ step' = 1

\* the index builds of lines 177-184: the program and the option it indexes
IndexBuilds ==
    << <<"bowtie-build", "virus">>,
       <<"bowtie-build", "consensus">>,
       <<"bowtie2-build", "consensus">>,
       <<"bowtie-build", "reference">>,
       <<"bowtie2-build", "reference">>,
       <<"bowtie-build", "masked">> >>

index_cmd(i) ==
    << <<IndexBuilds[i][1]>>, args[IndexBuilds[i][2]],
       get_base_name(args[IndexBuilds[i][2]]) >>

\* lines 177-184: index build number step
setup_index ==
    /\ pc = "index"
    /\ UNCHANGED <<call, ret, argv, args, fs, dirs, cwd, fq_lines, read_length, table,
                   bed, verified>>
    /\ \E rc \in ExitStatuses :
         IF step < Len(IndexBuilds)
         THEN run_command(index_cmd(step), TRUE, rc, "index", step + 1)
         ELSE run_command(index_cmd(step), TRUE, rc, "stage_fastq", 0)

\* the name of the staged read file
staged_fastq_name == args.sample_name \o <<".", "fastq">>

\* lines 186-192 up to the copy of the read file
setup_stage_fastq ==
    /\ pc = "stage_fastq"
    /\ UNCHANGED <<call, ret, argv, cwd, fq_lines, read_length, table, bed, verified,
                   stderr, exit_code>>
    /\ dirs' = mkdir(tidal_out)
    /\ \E rc \in ExitStatuses :
         IF EndsWithGz(args.fastq)
         THEN /\ copy(args.fastq, tidal_out, staged_fastq_name \o <<".", "gz">>, rc)
              /\ args' = [args EXCEPT
                            !.fastq = copy_outfile(args.fastq, tidal_out,
                                          staged_fastq_name \o <<".", "gz">>)]
              /\ pc' = "gunzip"
              /\ step' = 0
         ELSE /\ copy(args.fastq, tidal_out, staged_fastq_name, rc)
              /\ args' = [args EXCEPT
                            !.fastq = copy_outfile(args.fastq, tidal_out,
                                          staged_fastq_name)]
              /\ pc' = "make_chrom_files"
              /\ step' = 0

gunzip_cmd ==
    << <<"gunzip">>, tidal_out \o <<"/">> \o staged_fastq_name \o <<".", "gz">> >>

\* lines 189-190: gunzip replaces the compressed file by the plain one, and
\* exits 0 only if there was a compressed file
setup_gunzip ==
    /\ pc = "gunzip"
    /\ UNCHANGED <<call, ret, argv, dirs, cwd, fq_lines, read_length, table, bed,
                   verified>>
    /\ \E rc \in ExitStatuses :
         /\ rc = 0 => isfile(gunzip_cmd[2])
         /\ run_command(gunzip_cmd, TRUE, rc, "make_chrom_files", 0)
         /\ IF rc = 0
            THEN /\ fs' = (fs \ {gunzip_cmd[2]}) \cup {DropGz(gunzip_cmd[2])}
                 /\ args' = [args EXCEPT !.fastq = DropGz(args.fastq)]
            ELSE UNCHANGED <<fs, args>>

(***************************************************************************)
(* make_chrom_files and the call of estimate_read_length                   *)
(***************************************************************************)
chrom_len_file == args.out \o <<"/", "reference", "/", "chrom_lengths", ".", "tsv">>

chroms_dir == args.out \o <<"/", "reference", "/", "chroms">>

\* the first word of a title: what precedes the first blank
first_word(title) ==
    IF Contains(title, " ")
    THEN SubSeq(title, 1,
                (CHOOSE i \in Positions(title, " ") :
                     \A j \in Positions(title, " ") : i <= j) - 1)
    ELSE title

\* SeqIO.parse(infa, "fasta") from line number x on: a line that starts
\* with ">" opens a record, whose id is the first word of the rest; the
\* other lines, without their terminator, are added to its sequence
RECURSIVE parse_fasta(_, _, _)
parse_fasta(infa, x, records) ==
    IF x > Len(infa) THEN records
    ELSE LET line == replace_nl(infa[x])
         IN  IF line # << >> /\ line[1] = ">"
             THEN parse_fasta(infa, x + 1,
                      Append(records, [id |-> first_word(Tail(line)), seq |-> << >>]))
             ELSE IF records = << >> THEN parse_fasta(infa, x + 1, records)
             ELSE parse_fasta(infa, x + 1,
                      [records EXCEPT ![Len(records)].seq = @ \o line])

\* lines 201-209 from record number i on: the rows written to the index,
\* the per-sequence files written, and FileNotFoundError when the
\* directory of a per-sequence file is not among the directories d
RECURSIVE chrom_loop(_, _, _, _, _, _)
chrom_loop(out, records, d, i, rows, files) ==
    IF i > Len(records) THEN [raised |-> "", index |-> rows, files |-> files]
    ELSE LET seq_name == records[i].id
             seq_len == Len(records[i].seq)
             row == seq_name \o <<"\t">> \o str(seq_len) \o <<"\n">>
             chrom_file == out \o <<"/", "reference", "/", "chroms", "/">>
                               \o seq_name \o <<".", "fa">>
         IN  IF dirname(chrom_file) \notin d
             THEN [raised |-> "FileNotFoundError", index |-> Append(rows, row),
                   files |-> files]
             ELSE chrom_loop(out, records, d, i + 1, Append(rows, row),
                             files \cup {chrom_file})

\* make_chrom_files on a reference that exists, the directories d being
\* there once chroms is made: the exception raised ("" when none), the
\* rows of the index file and the per-sequence files written
chrom_files(out, infa, d) ==
    chrom_loop(out, parse_fasta(infa, 1, << >>), d, 1, << >>, {})

\* the reference genome of the model of the whole run: two sequences
PipelineReference ==
    << <<">", "2L", " ", "left arm", "\n">>, <<"A", "C", "\n">>, <<"G", "\n">>,
       <<">", "3R", "\n">>, <<"T", "\n">> >>

\* lines 197-211: open(args.reference) raises when the copy is not there
make_chrom_files ==
    /\ pc = "make_chrom_files"
    /\ UNCHANGED <<call, ret, argv, args, cwd, fq_lines, read_length, table, bed, invoked,
                   failed, verified>>
    /\ dirs' = mkdir(chroms_dir)
    /\ IF ~isfile(args.reference)
       THEN Raise("FileNotFoundError") /\ UNCHANGED fs
       ELSE LET m == chrom_files(args.out, PipelineReference, mkdir(chroms_dir))
            IN  /\ fs' = fs \cup {chrom_len_file} \cup m.files
                /\ IF m.raised # "" THEN Raise(m.raised)
                   ELSE Goto("estimate_read_length", 0)

\* line 26: estimate_read_length(args.fastq), with the default of reads
call_estimate_read_length ==
    /\ pc = "estimate_read_length"
    /\ UNCHANGED <<call, ret, argv, args, fs, dirs, cwd, fq_lines, table, bed, invoked,
                   failed, verified>>
    /\ IF ~isfile(args.fastq)
       THEN Raise("FileNotFoundError") /\ UNCHANGED read_length
       ELSE LET r == estimate_read_length(fq_lines, DefaultReads)
            IN  IF r.raised # ""
                THEN Raise(r.raised) /\ UNCHANGED read_length
                ELSE /\ read_length' = r.value
                     /\ Goto("data_prep", 0)

(***************************************************************************)
(* write_output                                                            *)
(***************************************************************************)
\* s.split(sep), sep one token
RECURSIVE split(_, _)
split(s, sep) ==
    IF ~Contains(s, sep) THEN <<s>>
    ELSE LET k == CHOOSE i \in Positions(s, sep) : \A j \in Positions(s, sep) : i <= j
         IN  <<SubSeq(s, 1, k - 1)>> \o split(SubSeq(s, k + 1, Len(s)), sep)

\* the header of the table of the pipeline
Columns ==
    << <<"Chr">>, <<"Chr_coord_5p">>, <<"Chr_coord_3p">>, <<"TE">>,
       <<"Coverage_Ratio">> >>

\* Insertion, were the values taken to stand in the order of Columns
\* whatever the header says
Insertion_in_order(headers, split_line) ==
    LET n == IF Len(split_line) < Len(Columns) THEN Len(split_line)
             ELSE Len(Columns)
    IN  [info |-> [h \in {Columns[x] : x \in 1..n} |->
                     split_line[CHOOSE x \in 1..n : Columns[x] = h]],
         is_ref |-> FALSE]

\* Insertion, were a record with an empty field flagged as a reference
\* insertion
Insertion_flagged(headers, split_line) ==
    [info |-> [h \in {headers[x] : x \in 1..Len(split_line)} |->
                 split_line[Max({x \in 1..Len(split_line) : headers[x] = h})]],
     is_ref |-> \E x \in 1..Len(split_line) : split_line[x] = << >>]

\* class Insertion, filled from one data line: info maps each header to the
\* value at its position (the last one, when a header occurs twice)
Insertion(headers, split_line) ==
    [info |-> [h \in {headers[x] : x \in 1..Len(split_line)} |->
                 split_line[Max({x \in 1..Len(split_line) : headers[x] = h})]],
     is_ref |-> FALSE]

\* lines 293-303 from line number x on: the records parsed, or IndexError
\* when a data line has more fields than the header
RECURSIVE parse_lines(_, _, _, _)
parse_lines(tbl, headers, x, insertions) ==
    IF x >= Len(tbl) THEN [raised |-> "", insertions |-> insertions]
    ELSE LET split_line == split(replace_nl(tbl[x + 1]), "\t")
         IN  IF Len(split_line) > Len(headers)
             THEN [raised |-> "IndexError", insertions |-> insertions]
             ELSE parse_lines(tbl, headers, x + 1,
                      Append(insertions, Insertion(headers, split_line)))

\* lines 292-303
parse_table(tbl) ==
    IF tbl = << >> THEN [raised |-> "", insertions |-> << >>]
    ELSE parse_lines(tbl, split(replace_nl(tbl[1]), "\t"), 1, << >>)

\* line 306
track_line(sample_name) ==
    <<"track name=\"">> \o sample_name \o <<"_popoolationte\" description=\"">>
        \o sample_name \o <<"_popoolationte\"", "\n">>

\* the headers the emission reads
EmittedHeaders ==
    {<<"TE">>, <<"Coverage_Ratio">>, <<"Chr">>, <<"Chr_coord_5p">>,
     <<"Chr_coord_3p">>}

\* lines 310-313: the line written for record number x
out_line(insert, sample_name, x) ==
    LET name == insert.info[<<"TE">>] \o <<"|non-reference|">>
                    \o insert.info[<<"Coverage_Ratio">>] \o <<"|">> \o sample_name
                    \o <<"|sr|">> \o str(x)
    IN  join(<<insert.info[<<"Chr">>], insert.info[<<"Chr_coord_5p">>],
               insert.info[<<"Chr_coord_3p">>], name, <<"0">>, <<".">>>>,
             <<"\t">>) \o <<"\n">>

\* lines 308-313 from record number x on: the lines written, and KeyError
\* when a record lacks a header the emission reads
RECURSIVE emit(_, _, _, _)
emit(insertions, sample_name, x, outbed) ==
    IF x >= Len(insertions) THEN [raised |-> "", bed |-> outbed]
    ELSE LET insert == insertions[x + 1]
         IN  IF insert.is_ref THEN emit(insertions, sample_name, x + 1, outbed)
             ELSE IF ~(EmittedHeaders \subseteq DOMAIN insert.info)
             THEN [raised |-> "KeyError", bed |-> outbed]
             ELSE emit(insertions, sample_name, x + 1,
                       Append(outbed, out_line(insert, sample_name, x)))

\* write_output on an insertion table that exists, in a result directory
\* that exists: the exception raised ("" when none), whether the interval
\* file was opened, and the lines written to it
write_output(tbl, sample_name) ==
    LET parsed == parse_table(tbl)
    IN  IF parsed.raised # ""
        THEN [raised |-> parsed.raised, opened |-> FALSE, bed |-> << >>]
        ELSE LET e == emit(parsed.insertions, sample_name, 0,
                           <<track_line(sample_name)>>)
             IN  [raised |-> e.raised, opened |-> TRUE, bed |-> e.bed]

(***************************************************************************)
(* Insertion tables.                                                       *)
(***************************************************************************)
\* one line of a table: the fields joined by tabs, and the terminator
table_line(fields) == join(fields, <<"\t">>) \o <<"\n">>

\* the tables last_part.sh may leave in the model of the whole run: the
\* header alone, one record, one record cut short
PipelineTables ==
    { <<table_line(Columns)>>,
      <<table_line(Columns),
        table_line(<< <<"2L">>, <<"100">>, <<"200">>, <<"Hopper">>,
                      <<"0", ".", "8">> >>)>>,
      <<table_line(Columns), table_line(<< <<"2L">>, <<"100">> >>)>> }

(***************************************************************************)
(* run_tidal                                                               *)
(***************************************************************************)
script(name) == code_dir \o <<"/", name, ".", "sh">>

\* what run_tidal checks after data_prep.sh (a path relative to TIDAL_out)
uq_polyn == basename(args.fastq) \o <<".", "uq", ".", "polyn">>

inserts_annotated ==
    tidal_out \o <<"/", "insertion", "/">> \o args.sample_name
        \o <<"_Inserts_Annotated", ".", "txt">>

depletion_annotated ==
    tidal_out \o <<"/", "depletion", "/">> \o args.sample_name
        \o <<"_Depletion_Annotated", ".", "txt">>

result_dir == tidal_out \o <<"/">> \o args.sample_name \o <<"_result">>

result_depletion_annotated ==
    result_dir \o <<"/">> \o args.sample_name \o <<"_Depletion_Annotated", ".", "txt">>

\* the tables run_tidal returns
depletion_table ==
    result_dir \o <<"/">> \o args.sample_name
        \o <<"_Depletion_Annotated_TEonly", ".", "txt">>

insertion_table ==
    result_dir \o <<"/">> \o args.sample_name \o <<"_Inserts_Annotated", ".", "txt">>

\* the interval file write_output writes
bed_file ==
    args.out \o <<"/", "TIDAL_out", "/">> \o args.sample_name \o <<"_result", "/">>
        \o args.sample_name \o <<"_TIDAL_tmp", ".", "bed">>

data_prep_cmd ==
    << <<"bash">>, script("data_prep"), basename(args.fastq), code_dir,
       args.processors >>

insert_pipeline_cmd ==
    << <<"bash">>, script("insert_pipeline"), uq_polyn, str(read_length),
       code_dir, remove_file_ext(args.reference), remove_file_ext(args.masked),
       remove_file_ext(args.consensus), args.reference, args.annotation,
       chrom_len_file, args.out \o <<"/", "reference", "/", "chroms", "/">>,
       args.gem, remove_file_ext(args.virus), args.consensus, args.processors >>

setup_cmd == << <<"bash">>, script("setup"), basename(args.fastq) >>

depletion_pipeline_cmd ==
    << <<"bash">>, script("depletion_pipeline"), uq_polyn, str(read_length),
       code_dir, remove_file_ext(args.reference), remove_file_ext(args.masked),
       remove_file_ext(args.consensus), args.reference, args.masked,
       args.repeatmasker, args.annotation, args.table, chrom_len_file,
       args.processors >>

last_part_cmd ==
    << <<"bash">>, script("last_part"), basename(args.fastq), code_dir >>

\* a stage script run through run_command with the default policy: it exits
\* with status rc and leaves the files created, whatever its status
run_stage(cmd_list, created, rc, next_pc) ==
    /\ run_command(cmd_list, TRUE, rc, next_pc, 0)
    /\ fs' = fs \cup created

\* a checkpoint, were it to write the diagnostic and go on
Checkpoint_goes_on(stage, artifact, msg, next_pc) ==
    /\ pc' = next_pc
    /\ step' = 0
    /\ UNCHANGED exit_code
    /\ IF exists(artifact)
       THEN verified' = Append(verified, stage) /\ UNCHANGED stderr
       ELSE stderr' = Append(stderr, msg) /\ UNCHANGED verified

\* a checkpoint: sys.exit(msg) unless the artifact exists
Checkpoint(stage, artifact, msg, next_pc) ==
    IF exists(artifact)
    THEN /\ verified' = Append(verified, stage)
         /\ Goto(next_pc, 0)
    ELSE /\ Exit(1, msg)
         /\ UNCHANGED verified

failed_msg(name) == <<name, ".", "sh", " failed...exiting...\n">>

\* lines 229-231
run_data_prep ==
    /\ pc = "data_prep"
    /\ UNCHANGED <<call, ret, argv, args, dirs, fq_lines, read_length, table, bed, verified>>
    /\ cwd' = tidal_out
    /\ \E rc \in ExitStatuses, created \in SUBSET {tidal_out \o <<"/">> \o uq_polyn} :
         run_stage(data_prep_cmd, created, rc, "check_data_prep")

\* lines 233-234
check_data_prep ==
    /\ pc = "check_data_prep"
    /\ UNCHANGED <<call, ret, argv, args, fs, dirs, cwd, fq_lines, read_length, table, bed,
                   invoked, failed>>
    /\ Checkpoint("data_prep", uq_polyn, failed_msg("data_prep"),
                  "insert_pipeline")

\* lines 236-252
run_insert_pipeline ==
    /\ pc = "insert_pipeline"
    /\ UNCHANGED <<call, ret, argv, args, dirs, cwd, fq_lines, read_length, table, bed,
                   verified>>
    /\ \E rc \in ExitStatuses, created \in SUBSET {inserts_annotated} :
         run_stage(insert_pipeline_cmd, created, rc, "check_insert_pipeline")

\* lines 254-255
check_insert_pipeline ==
    /\ pc = "check_insert_pipeline"
    /\ UNCHANGED <<call, ret, argv, args, fs, dirs, cwd, fq_lines, read_length, table, bed,
                   invoked, failed>>
    /\ Checkpoint("insert_pipeline", inserts_annotated,
                  failed_msg("insert_pipeline"), "setup")

\* line 257: nothing is checked after setup.sh but its exit status
run_setup ==
    /\ pc = "setup"
    /\ UNCHANGED <<call, ret, argv, args, dirs, cwd, fq_lines, read_length, table, bed,
                   verified>>
    /\ \E rc \in ExitStatuses :
         run_stage(setup_cmd, {}, rc, "depletion_pipeline")

\* lines 259-274
run_depletion_pipeline ==
    /\ pc = "depletion_pipeline"
    /\ UNCHANGED <<call, ret, argv, args, dirs, cwd, fq_lines, read_length, table, bed,
                   verified>>
    /\ \E rc \in ExitStatuses, created \in SUBSET {depletion_annotated} :
         run_stage(depletion_pipeline_cmd, created, rc, "check_depletion_pipeline")

\* lines 276-277: the diagnostic names insert_pipeline.sh
check_depletion_pipeline ==
    /\ pc = "check_depletion_pipeline"
    /\ UNCHANGED <<call, ret, argv, args, fs, dirs, cwd, fq_lines, read_length, table, bed,
                   invoked, failed>>
    /\ Checkpoint("depletion_pipeline", depletion_annotated,
                  failed_msg("insert_pipeline"), "last_part")

\* line 279: last_part.sh fills the result directory; the insertion table it
\* leaves there, if any, is one of PipelineTables
run_last_part ==
    /\ pc = "last_part"
    /\ UNCHANGED <<call, ret, argv, args, dirs, cwd, fq_lines, read_length, bed, verified>>
    /\ \E rc \in ExitStatuses,
          created \in SUBSET {result_depletion_annotated, insertion_table} :
         /\ run_stage(last_part_cmd, created, rc, "check_last_part")
         /\ IF insertion_table \in created
            THEN table' \in PipelineTables
            ELSE UNCHANGED table

\* lines 281-287
check_last_part ==
    /\ pc = "check_last_part"
    /\ UNCHANGED <<call, ret, argv, args, fs, dirs, cwd, fq_lines, read_length, table, bed,
                   invoked, failed>>
    /\ Checkpoint("last_part", result_depletion_annotated,
                  failed_msg("last_part"), "write_output")

\* line 28, and the return of main: open(insertion_tbl) raises when the
\* table is not there; otherwise the interval file holds what write_output
\* wrote before it returned or raised
call_write_output ==
    /\ pc = "write_output"
    /\ UNCHANGED <<call, ret, argv, args, dirs, cwd, fq_lines, read_length, table, invoked,
                   failed, verified>>
    /\ IF ~isfile(insertion_table)
       THEN Raise("FileNotFoundError") /\ UNCHANGED <<fs, bed>>
       ELSE LET w == write_output(table, args.sample_name)
            IN  /\ fs' = IF w.opened THEN fs \cup {bed_file} ELSE fs
                /\ bed' = w.bed
                /\ IF w.raised # "" THEN Raise(w.raised) ELSE Exit(0, << >>)

(***************************************************************************)
(* The whole run.                                                          *)
(***************************************************************************)
\* the read files of the model of the whole run: an empty file, a header
\* line alone, one record
PipelineReads ==
    { << >>,
      << <<"@", "r", "\n">> >>,
      << <<"@", "r", "\n">>, <<"A", "C", "G", "\n">>, <<"+", "\n">>,
         <<"I", "I", "I", "\n">> >> }

Init ==
    /\ pc = "parse_args"
    /\ step = 0
    /\ \E gz \in BOOLEAN, sample_name \in SampleNames, out \in OutDirs :
         argv = [f \in RequiredSet |-> GivenPath(f, gz)]
                  @@ [sample_name |-> sample_name, out |-> out,
                      processors |-> None]
    /\ args = argv
    /\ \E missing \in SUBSET RequiredSet :
         /\ Cardinality(missing) <= MaxMissing
         /\ fs = {argv[f] : f \in RequiredSet \ missing}
    /\ dirs = StartDirs
    /\ cwd = StartDir
    /\ fq_lines \in PipelineReads
    /\ read_length = 0
    /\ table = << >>
    /\ bed = << >>
    /\ invoked = << >>
    /\ failed = {}
    /\ verified = << >>
    /\ stderr = << >>
    /\ exit_code = 0
    /\ call = [fn |-> "main"]
    /\ ret = [raised |-> ""]

Next ==
    \/ parse_args
    \/ setup_input_files
    \/ setup_copy
    \/ setup_index
    \/ setup_stage_fastq
    \/ setup_gunzip
    \/ make_chrom_files
    \/ call_estimate_read_length
    \/ run_data_prep
    \/ check_data_prep
    \/ run_insert_pipeline
    \/ check_insert_pipeline
    \/ run_setup
    \/ run_depletion_pipeline
    \/ check_depletion_pipeline
    \/ run_last_part
    \/ check_last_part
    \/ call_write_output

Spec == Init /\ [][Next]_vars

(***************************************************************************)
(* estimate_read_length called by itself, on every read file and bound.    *)
(***************************************************************************)
\* one FASTQ record with a read of n bases: header, sequence, separator,
\* quality
fastq_record(n) ==
    << <<"@", "r", "\n">>, [i \in 1..n |-> "A"] \o <<"\n">>, <<"+", "\n">>,
       [i \in 1..n |-> "I"] \o <<"\n">> >>

\* the file of the records whose reads have the lengths lens
RECURSIVE fastq_file(_)
fastq_file(lens) ==
    IF lens = << >> THEN << >>
    ELSE fastq_record(lens[1]) \o fastq_file(Tail(lens))

\* the lists of at most n read lengths
RECURSIVE ReadLengths(_)
ReadLengths(n) ==
    IF n = 0 THEN {<< >>}
    ELSE ReadLengths(n - 1)
            \cup {Append(l, k) : l \in ReadLengths(n - 1), k \in 1..MaxReadLen}

\* the file without the terminator of its last line
chop(f) ==
    IF f = << >> THEN f
    ELSE [f EXCEPT ![Len(f)] = SubSeq(f[Len(f)], 1, Len(f[Len(f)]) - 1)]

\* the read files tried: every file of whole records, every file cut after
\* some line, and each of them with its last line left unterminated
ReadFiles ==
    LET whole == {fastq_file(l) : l \in ReadLengths(MaxRecords)}
        cut == UNION {{SubSeq(f, 1, n) : n \in 0..Len(f)} : f \in whole}
    IN  cut \cup {chop(f) : f \in cut}

ReadsArgs == (0..MaxReadsArg) \cup {DefaultReads}

\* the process variables, at rest while a function is called by itself
AtRest ==
    /\ step = 0
    /\ argv = [sample_name |-> None]
    /\ args = argv
    /\ fs = {}
    /\ dirs = StartDirs
    /\ cwd = StartDir
    /\ fq_lines = << >>
    /\ read_length = 0
    /\ table = << >>
    /\ bed = << >>
    /\ invoked = << >>
    /\ failed = {}
    /\ verified = << >>
    /\ stderr = << >>
    /\ exit_code = 0

InitERL ==
    /\ pc = "call"
    /\ AtRest
    /\ \E f \in ReadFiles, r \in ReadsArgs :
         call = [fn |-> "estimate_read_length", fq |-> f, reads |-> r]
    /\ ret = [raised |-> ""]

\* the call returns or raises
estimate_read_length_call ==
    /\ pc = "call"
    /\ call.fn = "estimate_read_length"
    /\ ret' = estimate_read_length(call.fq, call.reads)
    /\ pc' = IF ret'.raised = "" THEN "returned" ELSE "raised"
    /\ UNCHANGED <<step, argv, args, fs, dirs, cwd, fq_lines, read_length,
                   table, bed, invoked, failed, verified, stderr, exit_code,
                   call>>

NextERL == estimate_read_length_call

SpecERL == InitERL /\ [][NextERL]_vars

(***************************************************************************)
(* write_output called by itself, on every insertion table.                *)
(***************************************************************************)
\* a column write_output does not read
Extra == <<"Strand">>

\* the headers tried: the five columns in the order of the pipeline, in
\* the reverse order, and with a sixth column before or after them
Headers ==
    { Columns,
      [i \in 1..Len(Columns) |-> Columns[Len(Columns) + 1 - i]],
      <<Extra>> \o Columns,
      Columns \o <<Extra>> }

\* the records tried: a value for each column
Rows ==
    { (<<"Chr">> :> chr) @@ (<<"Chr_coord_5p">> :> <<"100">>)
        @@ (<<"Chr_coord_3p">> :> <<"200">>) @@ (<<"TE">> :> te)
        @@ (<<"Coverage_Ratio">> :> ratio) @@ (Extra :> <<"+">>) :
      chr \in {<<"2L">>, <<"3R">>},
      te \in {<<"Hopper">>, <<"roo">>},
      ratio \in {<<"0", ".", "8">>, << >>} }

\* the lists of at most n records
RECURSIVE RowLists(_)
RowLists(n) ==
    IF n = 0 THEN {<< >>}
    ELSE RowLists(n - 1)
            \cup {Append(l, r) : l \in RowLists(n - 1), r \in Rows}

\* what may be wrong with the text of a table: nothing, its last line
\* unterminated, the last field of its last record missing, one field too
\* many in its last record
Damages == {"none", "unterminated", "short", "long"}

\* the fields of a record under a header
fields_of(header, row) == [i \in 1..Len(header) |-> row[header[i]]]

\* the text of the table with that header and those records
table_text(header, rows, damage) ==
    LET n == Len(rows)
        whole == <<table_line(header)>>
                    \o [k \in 1..n |-> table_line(fields_of(header, rows[k]))]
        last_fields == fields_of(header, rows[n])
    IN  CASE damage = "none" -> whole
          [] damage = "unterminated" -> chop(whole)
          [] damage = "short" ->
                [whole EXCEPT ![n + 1] =
                    table_line(SubSeq(last_fields, 1, Len(last_fields) - 1))]
          [] damage = "long" ->
                [whole EXCEPT ![n + 1] =
                    table_line(Append(last_fields, <<"more">>))]

InitWO ==
    /\ pc = "call"
    /\ AtRest
    /\ \E header \in Headers, rows \in RowLists(MaxRows), damage \in Damages :
         /\ damage \in {"short", "long"} => rows # << >>
         /\ call = [fn |-> "write_output", header |-> header, rows |-> rows,
                    damage |-> damage,
                    tbl |-> table_text(header, rows, damage),
                    sample_name |-> <<"sample1">>]
    /\ ret = [raised |-> ""]

\* the call returns or raises
write_output_call ==
    /\ pc = "call"
    /\ call.fn = "write_output"
    /\ ret' = write_output(call.tbl, call.sample_name)
    /\ pc' = IF ret'.raised = "" THEN "returned" ELSE "raised"
    /\ UNCHANGED <<step, argv, args, fs, dirs, cwd, fq_lines, read_length,
                   table, bed, invoked, failed, verified, stderr, exit_code,
                   call>>

NextWO == write_output_call

SpecWO == InitWO /\ [][NextWO]_vars

(***************************************************************************)
(* make_chrom_files called by itself, on every reference genome.           *)
(***************************************************************************)
\* the identifiers tried: two plain ones, and one with a path separator
SeqIds == {<<"2L">>, <<"3R">>, <<"ctg", "/", "1">>}

\* the sequence lengths tried
SeqLens == {1, 3, 12}

\* the lists of at most n sequences, each an identifier and a length
RECURSIVE SeqLists(_)
SeqLists(n) ==
    IF n = 0 THEN {<< >>}
    ELSE SeqLists(n - 1)
            \cup {Append(l, [id |-> i, len |-> k]) :
                    l \in SeqLists(n - 1), i \in SeqIds, k \in SeqLens}

\* the lines of a sequence of n bases, two bases to a line
RECURSIVE seq_lines(_)
seq_lines(n) ==
    IF n = 0 THEN << >>
    ELSE IF n = 1 THEN << <<"A", "\n">> >>
    ELSE << <<"A", "C", "\n">> >> \o seq_lines(n - 2)

\* the FASTA text of the sequences, their titles with or without a
\* description after the identifier
RECURSIVE fasta_text(_, _)
fasta_text(seqs, described) ==
    IF seqs = << >> THEN << >>
    ELSE << <<">">> \o seqs[1].id
               \o (IF described THEN <<" ", "some text">> ELSE << >>) \o <<"\n">> >>
            \o seq_lines(seqs[1].len) \o fasta_text(Tail(seqs), described)

\* where the lone call writes
CallOut == <<"/", "cwd", "/", "o">>

InitMCF ==
    /\ pc = "call"
    /\ AtRest
    /\ \E seqs \in SeqLists(MaxSeqs), described \in BOOLEAN :
         call = [fn |-> "make_chrom_files", seqs |-> seqs, out |-> CallOut,
                 infa |-> fasta_text(seqs, described)]
    /\ ret = [raised |-> ""]

\* the call returns or raises; the output and reference directories are
\* there, and chroms is made by the call
make_chrom_files_call ==
    /\ pc = "call"
    /\ call.fn = "make_chrom_files"
    /\ ret' = chrom_files(call.out, call.infa,
                  StartDirs \cup {call.out, call.out \o <<"/", "reference">>,
                                  call.out \o <<"/", "reference", "/", "chroms">>})
    /\ pc' = IF ret'.raised = "" THEN "returned" ELSE "raised"
    /\ UNCHANGED <<step, argv, args, fs, dirs, cwd, fq_lines, read_length,
                   table, bed, invoked, failed, verified, stderr, exit_code,
                   call>>

NextMCF == make_chrom_files_call

SpecMCF == InitMCF /\ [][NextMCF]_vars

(***************************************************************************)
(* run_command called by itself.                                           *)
(***************************************************************************)
\* the commands tried
Commands ==
    { << <<"gunzip">>, <<"/", "cwd", "/", "o", "/", "s1", ".", "fastq", ".", "gz">> >>,
      << <<"bowtie-build">>, <<"virus", ".", "fa">>, <<"virus">> >>,
      << <<"bash">>, <<"setup", ".", "sh">> >> }

\* the log files tried: none, and one in the starting directory
Logs == {None, <<"/", "cwd", "/", "tidal", ".", "log">>}

InitRC ==
    /\ pc = "call"
    /\ AtRest
    /\ \E cmd_list \in Commands, log \in Logs, fatal \in BOOLEAN,
          rc \in ExitStatuses, can_open \in BOOLEAN, before \in 0..1 :
         /\ log = None => can_open /\ before = 0
         /\ call = [fn |-> "run_command", cmd_list |-> cmd_list, log |-> log,
                    fatal |-> fatal, rc |-> rc, can_open |-> can_open,
                    log_lines |-> [i \in 1..before |-> <<"earlier", "\n">>]]
    /\ ret = [raised |-> ""]

\* the call returns, ends the process, or lets an exception escape
run_command_call ==
    /\ pc = "call"
    /\ call.fn = "run_command"
    /\ LET o == run_command_outcome(call.cmd_list, call.log, call.fatal,
                                    call.rc, call.can_open)
       IN  /\ ret' = [raised |-> o.raised, value |-> o.value,
                      log_lines |-> call.log_lines \o o.logged]
           /\ pc' = IF o.raised # "" THEN "raised"
                    ELSE IF o.returns THEN "returned" ELSE "exited"
           /\ exit_code' = o.code
           /\ stderr' = stderr \o o.err
           /\ invoked' = IF o.launched THEN Append(invoked, call.cmd_list)
                         ELSE invoked
           /\ failed' = IF o.launched /\ call.rc # 0
                        THEN failed \cup {call.cmd_list} ELSE failed
    /\ UNCHANGED <<step, argv, args, fs, dirs, cwd, fq_lines, read_length,
                   table, bed, verified, call>>

NextRC == run_command_call

SpecRC == InitRC /\ [][NextRC]_vars

(***************************************************************************)
(* What the claims speak of.                                               *)
(***************************************************************************)
Range(seq) == {seq[i] : i \in 1..Len(seq)}

\* the command was launched
Invoked(cmd_list) == cmd_list \in Range(invoked)

\* the command was launched and exited 0
RanOk(cmd_list) == Invoked(cmd_list) /\ cmd_list \notin failed

\* the file is there (a relative path is taken from the working directory)
Present(path) == resolve(path) \in fs

\* the process has come to write_output, or has gone through it
ReachedWriteOutput ==
    \/ pc = "write_output"
    \/ bed # << >>
    \/ bed_file \in fs
    \/ (pc = "exited" /\ Len(verified) = 4)

\* the stages that have a checkpoint: the command, the position of the
\* check and the artifact checked
Checkpointed ==
    { [stage |-> "data_prep", cmd |-> data_prep_cmd,
       at |-> "check_data_prep", artifact |-> uq_polyn],
      [stage |-> "insert_pipeline", cmd |-> insert_pipeline_cmd,
       at |-> "check_insert_pipeline", artifact |-> inserts_annotated],
      [stage |-> "depletion_pipeline", cmd |-> depletion_pipeline_cmd,
       at |-> "check_depletion_pipeline", artifact |-> depletion_annotated],
      [stage |-> "last_part", cmd |-> last_part_cmd,
       at |-> "check_last_part", artifact |-> result_depletion_annotated] }

\* the checkpoint of stage c was reached and did not pass
CheckpointFailed(c) ==
    /\ RanOk(c.cmd)
    /\ pc # c.at
    /\ ~Present(c.artifact)

\* C1: when a checkpointed stage has exited 0 and its artifact is not there
\* once the check is made, the process has exited with status 1, the stage
\* is the last command that was launched, and write_output was not reached.
C1_CheckpointStops ==
    \A c \in Checkpointed :
        CheckpointFailed(c) =>
            /\ pc = "exited"
            /\ exit_code = 1
            /\ Last(invoked) = c.cmd
            /\ ~ReachedWriteOutput

\* last_part.sh exited 0 without its artifact, and the process has exited
C1_Witness ==
    /\ pc = "exited"
    /\ Len(verified) = 3
    /\ RanOk(last_part_cmd)
    /\ ~Present(result_depletion_annotated)

\* the commands launched through run_command (copy calls cp by itself)
ThroughRunCommand(cmd_list) == cmd_list[1] # <<"cp">>

\* C2: when a command launched through run_command has exited non-zero,
\* the process has exited with status 1, that command is the last one
\* launched, its command line is the last diagnostic, and write_output was
\* not reached.
C2_FailureStops ==
    \A c \in failed :
        ThroughRunCommand(c) =>
            /\ pc = "exited"
            /\ exit_code = 1
            /\ Last(invoked) = c
            /\ Last(stderr) = join(c, <<" ">>) \o <<"\n">>
            /\ ~ReachedWriteOutput

\* setup.sh exited non-zero after two checkpoints had passed
C2_Witness ==
    /\ pc = "exited"
    /\ setup_cmd \in failed
    /\ Len(verified) = 2

Verified(stage) == stage \in Range(verified)

\* C3 as stated: each of the five stages is followed by a check of an
\* artifact of its own before the next stage starts.
C3_EveryTransitionGated ==
    /\ Invoked(insert_pipeline_cmd) => Verified("data_prep")
    /\ Invoked(setup_cmd) => Verified("insert_pipeline")
    /\ Invoked(depletion_pipeline_cmd) => Verified("setup")
    /\ Invoked(last_part_cmd) => Verified("depletion_pipeline")
    /\ ReachedWriteOutput => Verified("last_part")

\* C3 as amended: data_prep.sh, insert_pipeline.sh, depletion_pipeline.sh
\* and last_part.sh are each followed by a check of their artifact before
\* the next step starts; depletion_pipeline.sh starts after setup.sh has
\* exited 0, with no check of an artifact of setup.sh.
C3_FourTransitionsGated ==
    /\ Invoked(insert_pipeline_cmd) =>
           Verified("data_prep") /\ Present(uq_polyn)
    /\ Invoked(setup_cmd) =>
           Verified("insert_pipeline") /\ Present(inserts_annotated)
    /\ Invoked(depletion_pipeline_cmd) =>
           RanOk(setup_cmd) /\ ~Verified("setup")
    /\ Invoked(last_part_cmd) =>
           Verified("depletion_pipeline") /\ Present(depletion_annotated)
    /\ ReachedWriteOutput =>
           Verified("last_part") /\ Present(result_depletion_annotated)

\* the four checkpoints have passed and write_output is next
C3_Witness ==
    /\ pc = "write_output"
    /\ verified = <<"data_prep", "insert_pipeline", "depletion_pipeline",
                    "last_part">>

\* every command so far exited 0 and the four checkpoints have passed
AllPassed == failed = {} /\ Len(verified) = 4

\* C4: when every command has exited 0 and every checkpoint has passed, the
\* table write_output reads is there, and the process ends with status 0
\* and the interval file written.
C4_CheckpointsGuaranteeDone ==
    AllPassed =>
        /\ isfile(insertion_table)
        /\ pc = "exited" => exit_code = 0 /\ bed_file \in fs

\* C5: when a copy or the decompression of the staging has failed, the
\* process has exited with a non-zero status and nothing was launched after
\* the command that failed.
C5_StagingFailureStops ==
    \A c \in failed :
        (c[1] = <<"cp">> \/ c[1] = <<"gunzip">>) =>
            /\ pc = "exited"
            /\ exit_code # 0
            /\ Last(invoked) = c

\* the diagnostic names the script
NamesStage(msg, stage) ==
    \E i \in 1..(Len(msg) - 2) : SubSeq(msg, i, i + 2) = <<stage, ".", "sh">>

\* C9: when the checkpoint of a stage fails, the last diagnostic names that
\* stage and no other checkpointed stage.
C9_DiagnosticNamesStage ==
    \A c \in Checkpointed :
        CheckpointFailed(c) /\ pc = "exited" =>
            /\ NamesStage(Last(stderr), c.stage)
            /\ \A d \in Checkpointed :
                   d.stage # c.stage => ~NamesStage(Last(stderr), d.stage)

\* the command line is not valid: a required path names no file, or the
\* sample name given holds a path separator
InvalidCommandLine ==
    \/ \E f \in RequiredSet : argv[f] \notin fs
    \/ argv.sample_name # None /\ Contains(argv.sample_name, "/")

\* C10: with a command line that is not valid, once parse_args has run the
\* process has exited with a non-zero status, and no directory was made, no
\* file was made and no command was launched.
C10_ValidationBeforeWork ==
    InvalidCommandLine /\ pc # "parse_args" =>
        /\ pc = "exited"
        /\ exit_code # 0
        /\ dirs = StartDirs
        /\ fs \subseteq {argv[f] : f \in RequiredSet}
        /\ invoked = << >>

\* the last required path is the one that names no file, an output
\* directory that could be made was asked for, and the process has exited
C10_Witness ==
    /\ pc = "exited"
    /\ argv.table \notin fs
    /\ argv.out = <<"/", "cwd", "/", "o">>
    /\ dirs = StartDirs

(***************************************************************************)
(* estimate_read_length and write_output.                                  *)
(***************************************************************************)
\* the call has returned or raised
Done == pc \in {"returned", "raised"}

\* the length of a line without its terminator
Width(line) == Cardinality({i \in 1..Len(line) : line[i] # "\n"})

\* the file holds no sequence line: it is empty, or a header line alone
NoUsableRecord(f) == Len(f) < 2

\* C6: on a read file with no usable record, estimate_read_length signals
\* an error of its own and does not divide by zero.
C6_ExplicitErrorOnEmptySample ==
    Done /\ call.fn = "estimate_read_length" /\ NoUsableRecord(call.fq) =>
        /\ ret.raised # ""
        /\ ret.raised # "ZeroDivisionError"

\* the file is N >= 1 whole records of four lines
WellFormed(f) ==
    /\ Len(f) >= 4
    /\ Len(f) % 4 = 0
    /\ \A k \in 0..((Len(f) \div 4) - 1) :
         /\ f[4 * k + 1][1] = "@"
         /\ f[4 * k + 3][1] = "+"
         /\ Width(f[4 * k + 2]) = Width(f[4 * k + 4])

RECURSIVE SumTo(_, _)
\* the lengths of the reads of the first n records, added up
SumTo(f, n) == IF n = 0 THEN 0 ELSE SumTo(f, n - 1) + Width(f[4 * (n - 1) + 2])

\* C7: on N >= 1 whole records, estimate_read_length(fq, reads=R) returns
\* the floor of the mean read length of the first min(R, N) records.
C7_MeanOfFirstRRecords ==
    Done /\ call.fn = "estimate_read_length" /\ WellFormed(call.fq)
         /\ call.reads >= 1 =>
        LET N == Len(call.fq) \div 4
            n == IF call.reads < N THEN call.reads ELSE N
        IN  /\ ret.raised = ""
            /\ ret.value = SumTo(call.fq, n) \div n

\* the line the claim gives for record number k of the table
claimed_line(row, k, sample_name) ==
    row[<<"Chr">>] \o <<"\t">> \o row[<<"Chr_coord_5p">>] \o <<"\t">>
        \o row[<<"Chr_coord_3p">>] \o <<"\t">>
        \o row[<<"TE">>] \o <<"|non-reference|">> \o row[<<"Coverage_Ratio">>]
        \o <<"|">> \o sample_name \o <<"|sr|">> \o <<Digits[k]>>
        \o <<"\t", "0", "\t", ".", "\n">>

\* C8: write_output returns on every table whose records are whole, and
\* whenever it returns, the lines after the track line are, record by
\* record, the six fields of the claim, with the index counting from 0.
C8_OneLinePerRecord ==
    Done /\ call.fn = "write_output" =>
        /\ call.damage \in {"none", "unterminated"} => ret.raised = ""
        /\ ret.raised = "" =>
             /\ Len(ret.bed) = Len(call.rows) + 1
             /\ \A k \in 1..Len(call.rows) :
                    ret.bed[k + 1] =
                        claimed_line(call.rows[k], k, call.sample_name)

\* two records under a header that is not in the order of the pipeline,
\* written out
C8_Witness ==
    /\ pc = "returned"
    /\ call.fn = "write_output"
    /\ call.header[1] = <<"Coverage_Ratio">>
    /\ Len(call.rows) = 2
    /\ call.rows[1] # call.rows[2]
    /\ Len(ret.bed) = 3

(***************************************************************************)
(* The order of the steps.                                                 *)
(***************************************************************************)
\* cp was launched on the file the command line names for the option
CopyInvoked(field) ==
    \E i \in 1..Len(invoked) :
        invoked[i][1] = <<"cp">> /\ invoked[i][2] = argv[field]

\* the command builds an index
IndexBuild(cmd_list) == cmd_list[1] \in {<<"bowtie-build">>, <<"bowtie2-build">>}

\* the index builds launched so far
IndexBuildsInvoked == SelectSeq(invoked, IndexBuild)

\* C11 as stated: when the first index build is launched, every input has
\* been copied, the read file included, and the chromosome index is made.
C11_StagedBeforeIndex ==
    IndexBuildsInvoked # << >> =>
        /\ \A f \in RequiredSet : CopyInvoked(f)
        /\ chrom_len_file \in fs

\* C11 as amended: when the first index build is launched, cp has been
\* launched on each of the eight reference inputs; the read file is copied
\* only after the six index builds have exited 0, and the chromosome index
\* is made only after the copy of the read file.
C11_ReferenceCopiesBeforeIndex ==
    /\ IndexBuildsInvoked # << >> =>
           \A f \in RequiredSet \ {"fastq"} : CopyInvoked(f)
    /\ CopyInvoked("fastq") =>
           /\ Len(IndexBuildsInvoked) = 6
           /\ \A c \in Range(IndexBuildsInvoked) : c \notin failed
    /\ chrom_len_file \in fs => CopyInvoked("fastq")
    /\ \A i \in 1..Len(invoked) :
           invoked[i][1] = <<"cp">> /\ invoked[i][2] = argv.fastq =>
               Len(SelectSeq(SubSeq(invoked, 1, i), IndexBuild)) = 6

\* the staging is over: the index builds are done, the read file is copied
\* and the chromosome index is made
C11_Witness ==
    /\ pc = "estimate_read_length"
    /\ Len(IndexBuildsInvoked) = 6
    /\ CopyInvoked("fastq")
    /\ chrom_len_file \in fs

\* what a command is known by: the script of a stage, or the index
\* program and the name of the index it builds
StepName(cmd_list) ==
    IF cmd_list[1] = <<"bash">> THEN basename(cmd_list[2])
    ELSE cmd_list[1] \o <<" ">> \o cmd_list[3]

\* the commands launched so far, the cp and gunzip of the staging left out
Steps ==
    SelectSeq(invoked, LAMBDA c : c[1] \notin {<<"cp">>, <<"gunzip">>})

\* the order the claim gives: the six index builds, then the five scripts
FixedOrder ==
    << <<"bowtie-build", " ", "virus">>,
       <<"bowtie-build", " ", "te">>,
       <<"bowtie2-build", " ", "te">>,
       <<"bowtie-build", " ", "dm6">>,
       <<"bowtie2-build", " ", "dm6">>,
       <<"bowtie-build", " ", "masked">>,
       <<"data_prep", ".", "sh">>,
       <<"insert_pipeline", ".", "sh">>,
       <<"setup", ".", "sh">>,
       <<"depletion_pipeline", ".", "sh">>,
       <<"last_part", ".", "sh">> >>

\* C12: the commands launched are, in order and once each, the first ones
\* of the fixed order; every one but the last launched has exited 0, and
\* a failed one is the end of the run; the read length is estimated after
\* the sixth index build and before data_prep.sh; write_output comes after
\* all eleven have exited 0.
C12_FixedLinearOrder ==
    /\ Len(Steps) <= Len(FixedOrder)
    /\ \A i \in 1..Len(Steps) :
           /\ StepName(Steps[i]) = FixedOrder[i]
           /\ i < Len(Steps) => Steps[i] \notin failed
           /\ Steps[i] \in failed => pc = "exited"
    /\ pc = "estimate_read_length" => Len(Steps) = 6 /\ read_length = 0
    /\ Len(Steps) >= 7 =>
           /\ read_length # 0
           /\ read_length = estimate_read_length(fq_lines, DefaultReads).value
    /\ ReachedWriteOutput =>
           /\ Len(Steps) = Len(FixedOrder)
           /\ \A c \in Range(Steps) : c \notin failed

\* every step was taken and the run has ended with the interval file
C12_Witness ==
    /\ pc = "exited"
    /\ exit_code = 0
    /\ bed_file \in fs
    /\ Len(Steps) = Len(FixedOrder)

(***************************************************************************)
(* make_chrom_files.                                                       *)
(***************************************************************************)
\* a length below 100 in decimal digits
TwoDigits(n) ==
    IF n < 10 THEN <<Digits[n + 1]>>
    ELSE <<Digits[(n \div 10) + 1], Digits[(n % 10) + 1]>>

\* C13: on a reference of n sequences, make_chrom_files returns, the index
\* holds n rows, row i the identifier and the length of sequence i, and
\* chroms holds a file named after each identifier.
C13_IndexRowPerSequence ==
    Done /\ call.fn = "make_chrom_files" =>
        /\ ret.raised = ""
        /\ Len(ret.index) = Len(call.seqs)
        /\ \A i \in 1..Len(call.seqs) :
               /\ ret.index[i] =
                      call.seqs[i].id \o <<"\t">> \o TwoDigits(call.seqs[i].len)
                          \o <<"\n">>
               /\ call.out \o <<"/", "reference", "/", "chroms", "/">>
                      \o call.seqs[i].id \o <<".", "fa">> \in ret.files

(***************************************************************************)
(* The configuration after setup_input_files.                              *)
(***************************************************************************)
\* setup_input_files has returned: the process is past it, or ended past it
SetupReturned ==
    \/ pc \notin {"parse_args", "setup_input_files", "copy", "index",
                  "stage_fastq", "gunzip", "exited", "raised"}
    \/ (pc \in {"exited", "raised"} /\ chroms_dir \in dirs)

\* the file names of the paths given on the command line
OriginalName ==
    [reference    |-> <<"dm6", ".", "fa">>,
     consensus    |-> <<"te", ".", "fa">>,
     annotation   |-> <<"refGene", ".", "txt">>,
     gem          |-> <<"dm6", ".", "gem">>,
     virus        |-> <<"virus", ".", "fa">>,
     repeatmasker |-> <<"rmsk", ".", "txt">>,
     table        |-> <<"lookup", ".", "txt">>]

\* the output directory: the one given, or else the starting directory
OutputDir == IF argv.out = None THEN StartDir ELSE argv.out

\* C14: after setup_input_files returns, reference, consensus, annotation,
\* gem, virus, repeatmasker and table are {out}/reference/{original file
\* name}, masked is {out}/reference/masked.{...} with no further directory,
\* fastq is {out}/TIDAL_out/{sample}.fastq for a plain and for a gzipped
\* read file alike, no field is the path given on the command line, and a
\* field whose cp exited 0 names a file that is there.
C14_FieldsPointAtStagedCopies ==
    SetupReturned =>
        /\ \A f \in DOMAIN OriginalName :
               args[f] = OutputDir \o <<"/", "reference", "/">> \o OriginalName[f]
        /\ LET prefix == OutputDir \o <<"/", "reference", "/", "masked", ".">>
           IN  /\ Len(args.masked) > Len(prefix)
               /\ SubSeq(args.masked, 1, Len(prefix)) = prefix
               /\ ~Contains(SubSeq(args.masked, Len(prefix) + 1, Len(args.masked)),
                            "/")
        /\ argv.sample_name # None => args.sample_name = argv.sample_name
        /\ args.fastq = OutputDir \o <<"/", "TIDAL_out", "/">> \o args.sample_name
                            \o <<".", "fastq">>
        /\ \A f \in RequiredSet :
               /\ args[f] # argv[f]
               /\ (\E c \in Range(invoked) \ failed :
                       c[1] = <<"cp">> /\ c[2] = argv[f]) => args[f] \in fs

\* setup_input_files has just returned on a gzipped read file, with a
\* sample name and an output directory given
C14_Witness ==
    /\ pc = "make_chrom_files"
    /\ argv.fastq = <<"/", "in", "/", "reads", ".", "fastq", ".", "gz">>
    /\ argv.sample_name = <<"s1">>
    /\ args.fastq = <<"/", "cwd", "/", "o", "/", "TIDAL_out", "/", "s1", ".", "fastq">>
    /\ args.masked = <<"/", "cwd", "/", "o", "/", "reference", "/", "masked", ".", "dm6">>

(***************************************************************************)
(* The is_ref flag and the shape of the interval file.                     *)
(***************************************************************************)
\* C15: no record parsed by write_output has is_ref set, so on a table of n
\* whole records the file is the track line and then n lines, line k made
\* from record k and numbered k-1; with n = 0 it is the track line alone.
C15_NoRecordSkipped ==
    Done /\ call.fn = "write_output" /\ call.damage \in {"none", "unterminated"} =>
        LET n == Len(call.rows)
            insertions == parse_table(call.tbl).insertions
        IN  /\ ret.raised = ""
            /\ Len(insertions) = n
            /\ \A k \in 1..n : insertions[k].is_ref = FALSE
            /\ ret.bed[1] =
                   <<"track name=\"", "sample1", "_popoolationte\" description=\"",
                     "sample1", "_popoolationte\"", "\n">>
            /\ Len(ret.bed) = n + 1
            /\ n = 0 => Len(ret.bed) = 1
            /\ \A k \in 1..n :
                   LET fields == split(replace_nl(ret.bed[k + 1]), "\t")
                   IN  /\ ret.bed[k + 1] =
                              claimed_line(call.rows[k], k, call.sample_name)
                       /\ Len(fields) = 6
                       /\ Last(fields[4]) = Digits[k]

\* two records, the second with an empty coverage ratio and without its
\* line terminator, under a header of six columns, written out
C15_Witness ==
    /\ pc = "returned"
    /\ call.fn = "write_output"
    /\ call.damage = "unterminated"
    /\ Len(call.header) = 6
    /\ Len(call.rows) = 2
    /\ call.rows[2][<<"Coverage_Ratio">>] = << >>
    /\ Len(ret.bed) = 3

(***************************************************************************)
(* What run_command gives back.                                            *)
(***************************************************************************)
\* C16: when the subprocess was launched, run_command returns True exactly
\* when it exited 0; when it exited non-zero, with fatal=False the call
\* returns False and the process is not ended, and with fatal=True the call
\* does not return and the process exits with status 1; with a log file and
\* without one alike.
C16_ReturnOrExit ==
    pc # "call" /\ call.fn = "run_command" /\ invoked # << >> =>
        /\ (pc = "returned" /\ ret.value = TRUE) <=> call.rc = 0
        /\ call.rc = 0 => exit_code = 0
        /\ call.rc # 0 /\ ~call.fatal =>
               pc = "returned" /\ ret.value = FALSE /\ exit_code = 0
        /\ call.rc # 0 /\ call.fatal => pc = "exited" /\ exit_code = 1
        /\ ret.raised = ""

\* a failing command, run with a log file and the default policy, has ended
\* the process
C16_Witness ==
    /\ pc = "exited"
    /\ call.fn = "run_command"
    /\ call.log # None
    /\ call.fatal
    /\ call.rc = 2
    /\ exit_code = 1
    /\ Len(ret.log_lines) = 3

=============================================================================
